---- MODULE Spec2Model ----
(***************************************************************************)
(* Model of contributors/markdown.py: write_to_markdown and the three      *)
(* functions it composes (get_contributor_table, get_summary_table,        *)
(* write_markdown_file).                                                   *)
(*                                                                         *)
(* Text is modelled by strings built with \o, exactly as the code          *)
(* concatenates them.  The one text the code takes apart, commit_url, is   *)
(* a sequence of tokens (its letters) so that split and strip are          *)
(* computed, not assumed.  A row is kept as the sequence of its cells;     *)
(* RowText renders it to the string the code appends.                      *)
(***************************************************************************)
EXTENDS Integers, Sequences, FiniteSets, TLC

\* Bounds of the model.
MaxContributors == 3
MaxCount == 2

----------------------------------------------------------------------------
\* Text helpers

RECURSIVE Concat(_)
\* "".join(parts)
Concat(parts) ==
    IF parts = <<>> THEN "" ELSE Head(parts) \o Concat(Tail(parts))

RECURSIVE Join(_, _)
\* sep.join(parts)
Join(sep, parts) ==
    IF parts = <<>> THEN ""
    ELSE IF Len(parts) = 1 THEN parts[1]
    ELSE parts[1] \o sep \o Join(sep, Tail(parts))

RECURSIVE Split(_, _)
\* s.split(sep) on a token sequence: the pieces between the occurrences of sep
Split(s, sep) ==
    IF \A k \in 1..Len(s) : s[k] # sep THEN <<s>>
    ELSE LET k == CHOOSE n \in 1..Len(s) :
                      s[n] = sep /\ \A j \in 1..(n - 1) : s[j] # sep
         IN  <<SubSeq(s, 1, k - 1)>> \o Split(SubSeq(s, k + 1, Len(s)), sep)

RECURSIVE Strip(_)
\* s.strip() on a token sequence: drops leading and trailing blanks
Strip(s) ==
    IF s = <<>> THEN s
    ELSE IF Head(s) = " " THEN Strip(Tail(s))
    ELSE IF s[Len(s)] = " " THEN Strip(SubSeq(s, 1, Len(s) - 1))
    ELSE s

\* str(b) of a Python bool
BoolStr(b) == IF b THEN "True" ELSE "False"

\* truth value of a Python string
Truthy(s) == s # ""

----------------------------------------------------------------------------
\* The repository parameter: a scalar string or a list of strings.

Scalar(s) == [isList |-> FALSE, items |-> <<s>>]
List(l) == [isList |-> TRUE, items |-> l]

\* truth value of the repository parameter
RepoTruthy(r) == IF r.isList THEN r.items # <<>> ELSE r.items[1] # ""

\* if not isinstance(repository, list): repository = [repository]
Normalize(r) == IF r.isList THEN r ELSE List(r.items)

\* f"{repository}"
RepoStr(r) ==
    IF r.isList
    THEN "[" \o Join(", ", [k \in 1..Len(r.items) |-> "'" \o r.items[k] \o "'"]) \o "]"
    ELSE r.items[1]

----------------------------------------------------------------------------
\* Inputs

StartDate == "2024-01-01"
EndDate == "2024-12-31"
OrgA == "orgA"
OrgB == "orgB"
Independent == "Independent"

\* commit_url values, as token sequences
UrlOne == <<"https://", "github.com/", "acme/widgets", "/commits", "?author=u">>
UrlTwo == <<"https://", "github.com/", "acme/gears", "/commits", "?author=u">>
UrlPair == UrlOne \o <<",", " ">> \o UrlTwo
UrlMalformed == <<"https://", "example.com/", "acme/widgets">>

\* collaborator.organizations: None, or a list of organization names
NoOrgs == [none |-> TRUE, items |-> <<>>]
OrgList(l) == [none |-> FALSE, items |-> l]
OrgLists ==
    {NoOrgs} \cup {OrgList(l) : l \in {<<>>, <<OrgA>>, <<OrgB>>,
                                       <<OrgA, OrgB>>, <<OrgB, OrgA>>}}

\* a ContributorStats record without its username
Stat(count, new, url, orgs, sponsor) ==
    [contribution_count |-> count, new_contributor |-> new, commit_url |-> url,
     organizations |-> orgs, sponsor_info |-> sponsor]

\* the arguments of write_to_markdown other than collaborators and filename
Args(start, end, org, repo, sponsor, link, show) ==
    [start_date |-> start, end_date |-> end, organization |-> org,
     repository |-> repo, sponsor_info |-> sponsor, link_to_profile |-> link,
     show_organizations_list |-> show]

\* Lists of at most MaxContributors records drawn from S; usernames are
\* unique, as the collection step produces one record per user.
Lists(S) ==
    UNION {{[k \in 1..n |-> [username |-> "user" \o ToString(k)] @@ f[k]] :
               f \in [1..n -> S]} : n \in 0..MaxContributors}

\* Input families: each varies the fields one stage of the report reads.
GroupingInputs ==
    {<<c, a>> :
        c \in Lists({Stat(MaxCount, TRUE, UrlOne, o, "") : o \in OrgLists}),
        a \in {Args(StartDate, EndDate, "", Scalar("acme/widgets"), "false", "true", s) :
                  s \in {<<>>, <<OrgA>>, <<OrgB, OrgA>>, <<"all">>}}}

CountInputs ==
    {<<c, a>> :
        c \in Lists({Stat(n, FALSE, UrlOne, OrgList(<<>>), "") : n \in 0..MaxCount}),
        a \in {Args(StartDate, EndDate, "", Scalar("acme/widgets"), "false", "true", <<>>),
               Args("", "", "", Scalar("acme/widgets"), "false", "true", <<>>)}}

SummaryInputs ==
    {<<c, a>> :
        c \in Lists({Stat(1, b, UrlOne, OrgList(<<>>), "") : b \in BOOLEAN}),
        a \in {Args(s, e, "", Scalar("acme/widgets"), "false", "true", <<>>) :
                  s \in {"", StartDate}, e \in {"", EndDate}}}

CellInputs ==
    {<<c, a>> :
        c \in Lists({Stat(1, FALSE, u, OrgList(<<OrgA>>), "") :
                        u \in {UrlOne, UrlPair, UrlMalformed}}),
        a \in {Args(StartDate, EndDate, o, r, "false", "true", <<OrgA>>) :
                  o \in {"", "acme"},
                  r \in {Scalar(""), Scalar("acme/widgets"),
                         List(<<>>), List(<<"acme/widgets", "acme/gears">>)}}}

SponsorInputs ==
    {<<c, a>> :
        c \in Lists({Stat(1, FALSE, UrlOne, OrgList(<<>>), s) :
                        s \in {"", "https://github.com/sponsors/u"}}),
        a \in {Args("", "", "acme", Scalar(""), s, l, <<>>) :
                  s \in {"true", "false"}, l \in {"true", "false"}}}

Inputs ==
    GroupingInputs \cup CountInputs \cup SummaryInputs \cup CellInputs \cup SponsorInputs

\* what the target file holds before the call
OldContent == <<"# Contributors\n\n(previous report)\n">>

----------------------------------------------------------------------------
\* State

VARIABLES
    collaborators,              \* argument: list of ContributorStats
    args,                       \* the other arguments
    pc,                         \* position in write_to_markdown
    exception,                  \* the exception that left the call, or ""
    i,                          \* collaborators already processed by the loop
    repository,                 \* local of get_contributor_table (rebound)
    commit_urls,                \* local of get_contributor_table
    total_contributions,
    organization_contributors,  \* insertion-ordered dict: org -> rows
    table,                      \* returned dict: org -> table text
    summary_table,
    file,                       \* chunks held by the target file
    fileOpen

vars == <<collaborators, args, pc, exception, i, repository, commit_urls,
          total_contributions, organization_contributors, table,
          summary_table, file, fileOpen>>

\* an unbound local variable
Unbound == [bound |-> FALSE, val |-> ""]
Bound(s) == [bound |-> TRUE, val |-> s]

Init ==
    /\ \E inp \in Inputs : collaborators = inp[1] /\ args = inp[2]
    /\ pc = "get_contributor_table"
    /\ exception = ""
    /\ i = 0
    /\ repository = args.repository
    /\ commit_urls = Unbound
    /\ total_contributions = 0
    /\ organization_contributors = <<>>
    /\ table = <<>>
    /\ summary_table = ""
    /\ file = OldContent
    /\ fileOpen = FALSE

----------------------------------------------------------------------------
\* get_contributor_table

RangeMode(a) == Truthy(a.start_date) /\ Truthy(a.end_date)

\* columns
Columns(a) ==
    <<"Username", "All Time Contribution Count">>
    \o (IF RangeMode(a) THEN <<"New Contributor">> ELSE <<>>)
    \o (IF a.sponsor_info = "true" THEN <<"Sponsor URL">> ELSE <<>>)
    \o (IF RangeMode(a)
        THEN <<"Commits between " \o a.start_date \o " and " \o a.end_date>>
        ELSE <<"All Commits">>)

HasColumn(a, name) == \E k \in 1..Len(Columns(a)) : Columns(a)[k] = name

\* headers
Headers(a) ==
    "| " \o Join(" | ", Columns(a)) \o " |\n"
    \o "| " \o Join(" | ", [k \in 1..Len(Columns(a)) |-> "---"]) \o " |\n"

\* url.split("/commits")[0].split("github.com/"): element [1] is the link name
LinkParts(url) == Split(Split(Strip(url), "/commits")[1], "github.com/")

\* f"[{org_repo_link_name}]({url})" + ", "
Link(url) ==
    "[" \o Concat(LinkParts(url)[2]) \o "](" \o Concat(Strip(url)) \o ")" \o ", "

\* whether the links are built: organization or len(repository) > 1
BuildsLinks(a, repo) == Truthy(a.organization) \/ Len(Normalize(repo).items) > 1

\* commit_urls after "if repository: commit_urls = collaborator.commit_url"
AfterRaw(c, repo, cu) ==
    IF RepoTruthy(repo) THEN Bound(Concat(c.commit_url)) ELSE cu

\* the urls that make url.split(...)[1] raise IndexError
BadUrls(c) ==
    LET urls == Split(c.commit_url, ",")
    IN  {k \in 1..Len(urls) : Len(LinkParts(urls[k])) < 2}

\* commit_urls when the row is formatted
CommitCell(a, c, repo, cu) ==
    IF BuildsLinks(a, repo)
    THEN LET urls == Split(c.commit_url, ",")
         IN  Bound(Concat([k \in 1..Len(urls) |-> Link(urls[k])]))
    ELSE AfterRaw(c, repo, cu)

\* the cells of row, given the commit cell
RowCells(a, c, commits) ==
    <<(IF a.link_to_profile = "false" THEN "" ELSE "@") \o c.username,
      ToString(c.contribution_count)>>
    \o (IF HasColumn(a, "New Contributor")
        THEN <<BoolStr(c.new_contributor)>> ELSE <<>>)
    \o (IF HasColumn(a, "Sponsor URL")
        THEN <<IF c.sponsor_info = "" THEN "not sponsorable"
               ELSE "[Sponsor Link](" \o c.sponsor_info \o ")">>
        ELSE <<>>)
    \o <<commits>>

\* the text of row
RowText(cells) ==
    "|" \o Concat([k \in 1..Len(cells) |-> " " \o cells[k] \o " |"]) \o "\n"

\* GroupOf with the loop run over show_organizations_list instead of the
\* contributor's own organizations
GroupOfShowOrder(a, c) ==
    LET orgs == c.organizations.items
        show == a.show_organizations_list
        member(j) == \E k \in 1..Len(orgs) : orgs[k] = show[j]
        hits == {j \in 1..Len(show) : member(j)}
    IN  IF orgs # <<>> /\ \E j \in 1..Len(show) : show[j] = "all" THEN orgs[1]
        ELSE IF hits = {} THEN Independent
        ELSE show[CHOOSE j \in hits : \A k \in hits : j <= k]

\* the key the row is appended under: the first organization shown, or Independent
GroupOf(a, c) ==
    LET orgs == c.organizations.items
        show == a.show_organizations_list
        shown(k) == (\E j \in 1..Len(show) : show[j] = orgs[k])
                    \/ (\E j \in 1..Len(show) : show[j] = "all")
        hits == {k \in 1..Len(orgs) : shown(k)}
    IN  IF hits = {} THEN Independent
        ELSE orgs[CHOOSE k \in hits : \A j \in hits : k <= j]

\* AppendRow with the list replaced instead of extended
AppendRowOverwrite(d, org, row) ==
    IF \E k \in 1..Len(d) : d[k].org = org
    THEN [k \in 1..Len(d) |->
             IF d[k].org = org THEN [org |-> org, rows |-> <<row>>] ELSE d[k]]
    ELSE Append(d, [org |-> org, rows |-> <<row>>])

\* AppendRow with the row inserted at the front of the list
AppendRowFront(d, org, row) ==
    IF \E k \in 1..Len(d) : d[k].org = org
    THEN [k \in 1..Len(d) |->
             IF d[k].org = org
             THEN [org |-> org, rows |-> <<row>> \o d[k].rows]
             ELSE d[k]]
    ELSE Append(d, [org |-> org, rows |-> <<row>>])

\* organization_contributors[org].append(row) on the insertion-ordered dict
AppendRow(d, org, row) ==
    IF \E k \in 1..Len(d) : d[k].org = org
    THEN [k \in 1..Len(d) |->
             IF d[k].org = org
             THEN [org |-> org, rows |-> Append(d[k].rows, row)]
             ELSE d[k]]
    ELSE Append(d, [org |-> org, rows |-> <<row>>])

\* {org: headers + "".join(rows) for org, rows in organization_contributors.items()}
Tables(a, d) ==
    [k \in 1..Len(d) |->
        [org |-> d[k].org,
         text |-> Headers(a) \o Concat([r \in 1..Len(d[k].rows) |-> RowText(d[k].rows[r])])]]

\* Accumulate with = in place of +=
AccumulateAssign(total, c) == c.contribution_count

\* total_contributions += collaborator.contribution_count
Accumulate(total, c) == total + c.contribution_count

InLoop == pc = "get_contributor_table" /\ i < Len(collaborators)

io == <<file, fileOpen>>

\* one iteration of the loop, the row is built and grouped
BuildRow ==
    /\ InLoop
    /\ LET c == collaborators[i + 1]
           cell == CommitCell(args, c, repository, commit_urls)
       IN  /\ BuildsLinks(args, repository) => BadUrls(c) = {}
           /\ cell.bound
           /\ total_contributions' = Accumulate(total_contributions, c)
           /\ repository' = Normalize(repository)
           /\ commit_urls' = cell
           /\ organization_contributors' =
                  AppendRow(organization_contributors, GroupOf(args, c),
                            RowCells(args, c, cell.val))
    /\ i' = i + 1
    /\ UNCHANGED <<collaborators, args, pc, exception, table, summary_table, io>>

\* one iteration of the loop, url.split("github.com/")[1] raises
BuildRowIndexError ==
    /\ InLoop
    /\ LET c == collaborators[i + 1]
           urls == Split(c.commit_url, ",")
           bad == CHOOSE k \in BadUrls(c) : \A j \in BadUrls(c) : k <= j
       IN  /\ BuildsLinks(args, repository)
           /\ BadUrls(c) # {}
           /\ total_contributions' = Accumulate(total_contributions, c)
           /\ repository' = Normalize(repository)
           /\ commit_urls' = Bound(Concat([k \in 1..(bad - 1) |-> Link(urls[k])]))
    /\ pc' = "raised"
    /\ exception' = "IndexError"
    /\ UNCHANGED <<collaborators, args, i, organization_contributors, table,
                   summary_table, io>>

\* one iteration of the loop, the row reads commit_urls before any assignment
BuildRowUnboundLocalError ==
    /\ InLoop
    /\ LET c == collaborators[i + 1]
       IN  /\ ~BuildsLinks(args, repository)
           /\ ~AfterRaw(c, repository, commit_urls).bound
           /\ total_contributions' = Accumulate(total_contributions, c)
           /\ repository' = Normalize(repository)
    /\ pc' = "raised"
    /\ exception' = "UnboundLocalError"
    /\ UNCHANGED <<collaborators, args, i, commit_urls, organization_contributors,
                   table, summary_table, io>>

\* the loop is over: the tables are built and returned
ReturnTables ==
    /\ pc = "get_contributor_table"
    /\ i = Len(collaborators)
    /\ table' = Tables(args, organization_contributors)
    /\ pc' = "get_summary_table"
    /\ UNCHANGED <<collaborators, args, exception, i, repository, commit_urls,
                   total_contributions, organization_contributors,
                   summary_table, io>>

----------------------------------------------------------------------------
\* get_summary_table

\* NewContributorsPercentage truncated instead of rounded
NewContributorsPercentageTruncated(cs) ==
    LET new == Cardinality({k \in 1..Len(cs) : cs[k].new_contributor = TRUE})
    IN  (new * 10000) \div Len(cs)

\* round(new / len * 100, 2), in hundredths of a percent.  No quotient
\* new / len * 100 lies halfway between two hundredths unless 32 divides
\* len, so rounding to nearest decides it for the lists considered here.
NewContributorsPercentage(cs) ==
    LET new == Cardinality({k \in 1..Len(cs) : cs[k].new_contributor = TRUE})
    IN  (2 * new * 10000 + Len(cs)) \div (2 * Len(cs))

\* str(x) of the float x given in hundredths
FloatStr(h) ==
    ToString(h \div 100) \o "."
    \o (IF h % 100 = 0 THEN "0"
        ELSE IF h % 10 = 0 THEN ToString((h % 100) \div 10)
        ELSE IF h % 100 < 10 THEN "0" \o ToString(h % 100)
        ELSE ToString(h % 100))

\* summary_table
SummaryTable(cs, a, total) ==
    IF RangeMode(a)
    THEN "| Total Contributors | Total Contributions | % New Contributors |\n| --- | --- | --- |\n"
         \o "| " \o ToString(Len(cs)) \o " | " \o ToString(total) \o " | "
         \o (IF Len(cs) > 0 THEN FloatStr(NewContributorsPercentage(cs)) ELSE "0")
         \o "% |\n\n"
    ELSE "| Total Contributors | Total Contributions |\n| --- | --- |\n"
         \o "| " \o ToString(Len(cs)) \o " | " \o ToString(total) \o " |\n\n"

GetSummaryTable ==
    /\ pc = "get_summary_table"
    /\ summary_table' = SummaryTable(collaborators, args, total_contributions)
    /\ pc' = "open"
    /\ UNCHANGED <<collaborators, args, exception, i, repository, commit_urls,
                   total_contributions, organization_contributors, table, io>>

----------------------------------------------------------------------------
\* write_markdown_file

Title == "# Contributors\n\n"
Footer == "\n _this file was generated by the [Organizational Contributors GitHub Action](https://github.com/HCookie/organizational_contributors)_\n"

\* org_title
OrgTitle(org) ==
    IF org # Independent
    THEN "## [" \o org \o "](https://github.com/" \o org \o ")\n"
    ELSE "## " \o org \o " \n"

HasKey(t, org) == \E k \in 1..Len(t) : t[k].org = org
Lookup(t, org) == t[CHOOSE k \in 1..Len(t) : t[k].org = org].text

\* OrgsIndependentLast without the move
OrgsUnmoved(t) == [k \in 1..Len(t) |-> t[k].org]

\* orgs = list(table.keys()), with 'Independent' removed and appended
OrgsIndependentLast(t) ==
    LET keys == [k \in 1..Len(t) |-> t[k].org]
    IN  IF HasKey(t, Independent)
        THEN SelectSeq(keys, LAMBDA o : o # Independent) \o <<Independent>>
        ELSE keys

RECURSIVE Sections(_, _)
\* the writes of the loop over orgs: a title and a table for each
Sections(t, orgs) ==
    IF orgs = <<>> THEN <<>>
    ELSE <<OrgTitle(Head(orgs)), Lookup(t, Head(orgs))>> \o Sections(t, Tail(orgs))

\* the texts the tables are written as
TableWrites(t) ==
    IF Len(t) = 1 /\ HasKey(t, Independent)
    THEN <<Lookup(t, Independent)>>
    ELSE Sections(t, OrgsIndependentLast(t))

\* the calls of markdown_file.write, in order
Writes(a, t, summary) ==
    <<Title>>
    \o (IF RangeMode(a)
        THEN <<"- Date range for contributor list:  " \o a.start_date
               \o " to " \o a.end_date \o "\n">>
        ELSE <<>>)
    \o (IF Truthy(a.organization)
        THEN <<"- Organization: " \o a.organization \o "\n">> ELSE <<>>)
    \o (IF RepoTruthy(a.repository)
        THEN <<"- Repository: " \o RepoStr(a.repository) \o "\n">> ELSE <<>>)
    \o <<"\n", summary>>
    \o TableWrites(t)
    \o <<Footer>>

built == <<collaborators, args, i, repository, commit_urls, total_contributions,
           organization_contributors, table, summary_table>>

\* Open in append mode
OpenAppend ==
    /\ pc = "open"
    /\ file' = file
    /\ fileOpen' = TRUE
    /\ pc' = "write"
    /\ UNCHANGED <<built, exception>>

\* Open moved to the start of write_to_markdown, before the tables are built
OpenEarly ==
    /\ pc = "get_contributor_table"
    /\ i = 0
    /\ ~fileOpen
    /\ file' = <<>>
    /\ fileOpen' = TRUE
    /\ UNCHANGED <<built, pc, exception>>

\* open(filename, "w") succeeds: the file is truncated
Open ==
    /\ pc = "open"
    /\ file' = <<>>
    /\ fileOpen' = TRUE
    /\ pc' = "write"
    /\ UNCHANGED <<built, exception>>

\* open(filename, "w") raises
OpenError ==
    /\ pc = "open"
    /\ pc' = "raised"
    /\ exception' = "OSError: open"
    /\ UNCHANGED <<built, io>>

\* the next markdown_file.write succeeds
Write ==
    /\ pc = "write"
    /\ Len(file) < Len(Writes(args, table, summary_table))
    /\ file' = Append(file, Writes(args, table, summary_table)[Len(file) + 1])
    /\ UNCHANGED <<built, pc, exception, fileOpen>>

\* the next markdown_file.write raises: the with block closes the file
WriteError ==
    /\ pc = "write"
    /\ Len(file) < Len(Writes(args, table, summary_table))
    /\ fileOpen' = FALSE
    /\ pc' = "raised"
    /\ exception' = "OSError: write"
    /\ UNCHANGED <<built, file>>

\* the with block ends: the file is closed and write_to_markdown returns
Close ==
    /\ pc = "write"
    /\ Len(file) = Len(Writes(args, table, summary_table))
    /\ fileOpen' = FALSE
    /\ pc' = "done"
    /\ UNCHANGED <<built, file, exception>>

----------------------------------------------------------------------------

Next ==
    \/ BuildRow
    \/ BuildRowIndexError
    \/ BuildRowUnboundLocalError
    \/ ReturnTables
    \/ GetSummaryTable
    \/ Open
    \/ OpenError
    \/ Write
    \/ WriteError
    \/ Close

Spec == Init /\ [][Next]_vars

----------------------------------------------------------------------------
\* Properties

\* get_contributor_table has returned
TablesReturned ==
    \/ pc \in {"get_summary_table", "open", "write", "done"}
    \/ pc = "raised" /\ exception \in {"OSError: open", "OSError: write"}

\* write_to_markdown failed while the tables were built
BuildFailed == pc = "raised" /\ exception \in {"IndexError", "UnboundLocalError"}

\* the username cell of a contributor's row
UsernameCell(c) ==
    (IF args.link_to_profile = "false" THEN "" ELSE "@") \o c.username

\* the places <<group, position>> of the rows of contributor k
PlacesOf(k) ==
    {pl \in UNION {{<<g, r>> : r \in 1..Len(organization_contributors[g].rows)} :
                      g \in 1..Len(organization_contributors)} :
        organization_contributors[pl[1]].rows[pl[2]][1] = UsernameCell(collaborators[k])}

\* the contributor a row was built from
SourceOf(row) ==
    CHOOSE k \in 1..Len(collaborators) : UsernameCell(collaborators[k]) = row[1]

RECURSIVE SumCounts(_)
SumCounts(cs) ==
    IF cs = <<>> THEN 0 ELSE Head(cs).contribution_count + SumCounts(Tail(cs))

Abs(x) == IF x < 0 THEN -x ELSE x

\* C1: once get_contributor_table has returned, every contributor of the
\* input has exactly one row, under exactly one key of the returned mapping,
\* and the mapping holds no other row.
C1_ExactlyOneGroup ==
    TablesReturned =>
        /\ \A k \in 1..Len(collaborators) : Cardinality(PlacesOf(k)) = 1
        /\ \A g \in 1..Len(organization_contributors) :
               \A r \in 1..Len(organization_contributors[g].rows) :
                   \E k \in 1..Len(collaborators) : <<g, r>> \in PlacesOf(k)
        /\ Len(table) = Len(organization_contributors)
        /\ \A g, h \in 1..Len(table) :
               /\ table[g].org = organization_contributors[g].org
               /\ g # h => table[g].org # table[h].org

C1_Witness ==
    /\ TablesReturned
    /\ Len(collaborators) >= 2
    /\ Len(table) >= 2
    /\ \E j \in 1..Len(args.show_organizations_list) :
           args.show_organizations_list[j] = "all"
    /\ \E k \in 1..Len(collaborators) : Len(collaborators[k].organizations.items) = 2
    /\ \E g \in 1..Len(organization_contributors) :
           Len(organization_contributors[g].rows) >= 2

\* C2: each row is under the first organization of the contributor's own
\* list that show_organizations_list names; with "all" in the list it is
\* under the contributor's first organization; with no organization named,
\* or none at all, it is under Independent.
C2_FirstShownOrganization ==
    TablesReturned =>
        \A k \in 1..Len(collaborators) :
            \A pl \in PlacesOf(k) :
                LET key == organization_contributors[pl[1]].org
                    orgs == collaborators[k].organizations.items
                    show == args.show_organizations_list
                    all == \E j \in 1..Len(show) : show[j] = "all"
                    named(n) == \E j \in 1..Len(show) : show[j] = orgs[n]
                IN  /\ all /\ orgs # <<>> => key = orgs[1]
                    /\ ~all /\ (\E n \in 1..Len(orgs) : named(n)) =>
                           \E n \in 1..Len(orgs) :
                               /\ key = orgs[n]
                               /\ named(n)
                               /\ \A m \in 1..(n - 1) : ~named(m)
                    /\ ~all /\ (\A n \in 1..Len(orgs) : ~named(n)) => key = Independent
                    /\ orgs = <<>> => key = Independent

C2_Witness ==
    /\ TablesReturned
    /\ args.show_organizations_list = <<OrgB, OrgA>>
    /\ \E k \in 1..Len(collaborators) :
           /\ collaborators[k].organizations.items = <<OrgA, OrgB>>
           /\ \E pl \in PlacesOf(k) : organization_contributors[pl[1]].org = OrgA
    /\ \E k \in 1..Len(collaborators) : collaborators[k].organizations.none

\* C3: the total returned by get_contributor_table is the sum of
\* contribution_count over the input list, however the rows are grouped, and
\* the summary table built and written shows that sum.
C3_TotalIsSum ==
    /\ TablesReturned => total_contributions = SumCounts(collaborators)
    /\ pc \in {"open", "write", "done"} =>
           summary_table = SummaryTable(collaborators, args, SumCounts(collaborators))
    /\ pc = "done" =>
           \E n \in 1..Len(file) :
               file[n] = SummaryTable(collaborators, args, SumCounts(collaborators))

C3_Witness ==
    /\ pc = "done"
    /\ Len(collaborators) = MaxContributors
    /\ total_contributions > MaxCount
    /\ \E j, k \in 1..Len(collaborators) :
           collaborators[j].contribution_count # collaborators[k].contribution_count

\* the writes of the tables as the specification describes them, with the
\* given heading line for Independent
SectionsAsSpecified(heading) ==
    LET others == SelectSeq(table, LAMBDA e : e.org # Independent)
        indep == SelectSeq(table, LAMBDA e : e.org = Independent)
    IN  IF Len(table) = 1 /\ table[1].org = Independent
        THEN <<table[1].text>>
        ELSE [n \in 1..(2 * Len(others)) |->
                 IF n % 2 = 1
                 THEN "## [" \o others[(n + 1) \div 2].org \o "](https://github.com/"
                      \o others[(n + 1) \div 2].org \o ")\n"
                 ELSE others[n \div 2].text]
             \o (IF indep # <<>> THEN <<heading, indep[1].text>> ELSE <<>>)

\* the complete document ends with the given writes between the summary
\* table and the footer
TablesWrittenAs(w) ==
    /\ Len(file) >= Len(w) + 2
    /\ file[Len(file)] = Footer
    /\ SubSeq(file, Len(file) - Len(w), Len(file) - 1) = w
    /\ file[Len(file) - Len(w) - 1] = summary_table

\* C4 as stated: a lone Independent group is written without heading;
\* otherwise the other groups come first under linked headings and
\* Independent comes last under the heading line "## Independent".
C4_HeadingAsStated ==
    pc = "done" => TablesWrittenAs(SectionsAsSpecified("## Independent\n"))

\* C4, amended: the same, the heading line of Independent being
\* "## Independent " (the name followed by one blank).
C4_IndependentLast ==
    pc = "done" => TablesWrittenAs(SectionsAsSpecified("## Independent \n"))

C4_Witness ==
    /\ pc = "done"
    /\ Len(table) >= 3
    /\ table[1].org = Independent

\* C5 as stated: every row has a commit cell, the links when an organization
\* is set or more than one repository is in scope, else the contributor's
\* raw commit_url, also when repository is empty.
C5_CommitCellDefined ==
    /\ exception # "UnboundLocalError"
    /\ \A k \in 1..Len(collaborators) :
           \A pl \in PlacesOf(k) :
               LET row == organization_contributors[pl[1]].rows[pl[2]]
                   urls == Split(collaborators[k].commit_url, ",")
                   many == args.repository.isList /\ Len(args.repository.items) > 1
               IN  row[Len(row)] =
                       IF Truthy(args.organization) \/ many
                       THEN Concat([n \in 1..Len(urls) |-> Link(urls[n])])
                       ELSE Concat(collaborators[k].commit_url)

\* C6 as stated: with no contributors the call returns and the document
\* holds the summary of zeros and a table header block with no rows.
C6_EmptyListKeepsHeaders ==
    pc = "done" /\ collaborators = <<>> =>
        /\ \E n \in 1..Len(file) : file[n] = SummaryTable(<<>>, args, 0)
        /\ \E n \in 1..Len(file) : file[n] = Headers(args)

\* C7 as stated: when the call is over the target holds the complete
\* document or what it held before.
C7_AllOrNothing ==
    pc \in {"done", "raised"} =>
        \/ file = OldContent
        \/ file = Writes(args, table, summary_table)

\* C7, amended: a failed open leaves the target as it was; a failed write
\* leaves it truncated, holding a strict prefix of the document; a call that
\* returns leaves the complete document.
C7_PrefixOnFailure ==
    LET doc == Writes(args, table, summary_table)
    IN  /\ pc = "raised" /\ exception = "OSError: open" => file = OldContent
        /\ pc = "raised" /\ exception = "OSError: write" =>
               /\ Len(file) < Len(doc)
               /\ file = SubSeq(doc, 1, Len(file))
               /\ file # OldContent
        /\ pc = "done" => file = doc /\ file[1] = Title /\ file[Len(file)] = Footer
        /\ pc \in {"done", "raised"} => ~fileOpen

C7_Witness ==
    /\ pc = "raised"
    /\ exception = "OSError: write"
    /\ Len(file) >= 2
    /\ file[1] = Title

\* C8: in range mode the summary shows new / len * 100 rounded to two
\* decimals, between 0 and 100, and 0 for the empty list; without both dates
\* it has the two count columns only.
C8_Percentage ==
    pc \in {"open", "write", "done"} =>
        LET n == Len(collaborators)
            new == Cardinality({k \in 1..n : collaborators[k].new_contributor})
            counts == "| " \o ToString(n) \o " | " \o ToString(total_contributions)
            range == "| Total Contributors | Total Contributions | % New Contributors |\n"
                     \o "| --- | --- | --- |\n" \o counts \o " | "
            floor == IF n = 0 THEN 0 ELSE (10000 * new) \div n
        IN  IF args.start_date # "" /\ args.end_date # ""
            THEN IF n = 0
                 THEN summary_table = range \o "0" \o "% |\n\n"
                 ELSE \E h \in {floor, floor + 1} :
                          /\ 0 <= h /\ h <= 10000
                          /\ 2 * Abs(h * n - 10000 * new) <= n
                          /\ summary_table = range \o FloatStr(h) \o "% |\n\n"
            ELSE summary_table =
                     "| Total Contributors | Total Contributions |\n| --- | --- |\n"
                     \o counts \o " |\n\n"

C8_Witness ==
    /\ pc = "done"
    /\ args.start_date # "" /\ args.end_date # ""
    /\ Len(collaborators) = 3
    /\ Cardinality({k \in 1..3 : collaborators[k].new_contributor}) = 2

\* C9: each returned table is the header block followed by the rows of its
\* group, and within a group the rows are in the order their contributors
\* have in the input list.
C9_InputOrderKept ==
    TablesReturned =>
        \A g \in 1..Len(organization_contributors) :
            LET rows == organization_contributors[g].rows
            IN  /\ \A r1, r2 \in 1..Len(rows) :
                       r1 < r2 => SourceOf(rows[r1]) < SourceOf(rows[r2])
                /\ table[g].text =
                       Headers(args) \o Concat([r \in 1..Len(rows) |-> RowText(rows[r])])

C9_Witness ==
    /\ TablesReturned
    /\ Len(organization_contributors) >= 2
    /\ \E g \in 1..Len(organization_contributors) :
           LET rows == organization_contributors[g].rows
           IN  Len(rows) = 2 /\ SourceOf(rows[1]) = 1 /\ SourceOf(rows[2]) = 3

\* C10: the target file is untouched until the tables and the summary are
\* built; a failure while a row is built leaves it closed with its previous
\* content.
C10_BuiltBeforeOpen ==
    /\ pc \in {"get_contributor_table", "get_summary_table", "open"} \/ BuildFailed =>
           file = OldContent /\ ~fileOpen
    /\ fileOpen =>
           /\ i = Len(collaborators)
           /\ table = Tables(args, organization_contributors)
           /\ summary_table = SummaryTable(collaborators, args, total_contributions)

C10_Witness ==
    /\ pc = "raised"
    /\ exception = "IndexError"
    /\ i >= 1
    /\ organization_contributors # <<>>
    /\ file = OldContent
    /\ ~fileOpen

====
